---- MODULE Spec2Model ----
(***************************************************************************)
(* Circle detection service: the CircleDetector class                      *)
(* (src/circle_detector.py) and the Flask handlers that share one          *)
(* module-level detector and one uploads/outputs directory tree            *)
(* (src/circle_api.py).                                                    *)
(*                                                                         *)
(* Values.  Python's None is the record None; a numpy array of circles is  *)
(* Arr(s) with s a sequence of <<x, y, r>>; a decoded picture is a record  *)
(* of kind "img" whose pixels are given by Pixel and whose field discs     *)
(* lists, in the accumulator's scan order and in tenths of a pixel, the    *)
(* circles the Hough search finds in it; a pixel array produced by the     *)
(* program is a record of kind "arr" holding its rows.  A file system is a *)
(* function from the paths that exist to their content.                    *)
(***************************************************************************)
EXTENDS Integers, Sequences, FiniteSets, TLC

VARIABLES fs, detector, lib, pc, req, loc, done, started

vars == <<fs, detector, lib, pc, req, loc, done, started>>

----------------------------------------------------------------------------
(* Bounds of the model *)

\* largest radius of a circle handed to a stage directly
MaxR == 2
\* longest circle sequence built from the corner circles
MaxCircles == 2
\* requests accepted by the server in one run
MaxStarted == 3

(* Program constants *)

DefaultMinRadius == 10
DefaultMaxRadius == 200
DefaultMinDist == 100
DefaultParam1 == 50
DefaultParam2 == 30
\* dp = 1.2, in tenths
DefaultDp10 == 12

----------------------------------------------------------------------------
(* Python and numpy values *)

None == [kind |-> "None"]

\* a local variable not assigned yet
Unset == [kind |-> "unset"]

Arr(s) == [kind |-> "circles", arr |-> s]

IsNone(v) == v.kind = "None"

Max(a, b) == IF a >= b THEN a ELSE b

Min(a, b) == IF a <= b THEN a ELSE b

\* a[lo:hi] on an axis of length n: the indices numpy keeps
SliceRange(lo, hi, n) ==
    LET norm(i) == IF i < 0 THEN Max(0, i + n) ELSE Min(i, n)
    IN  norm(lo) .. (norm(hi) - 1)

\* np.round on a non-negative value given in tenths: half goes to even
NpRound10(t) ==
    LET q == t \div 10
        m == t % 10
    IN  IF m < 5 THEN q
        ELSE IF m > 5 THEN q + 1
        ELSE IF q % 2 = 0 THEN q ELSE q + 1

----------------------------------------------------------------------------
(* Pictures *)

Picture(id, w, h, discs) ==
    [kind |-> "img", id |-> id, w |-> w, h |-> h, discs |-> discs, marks |-> <<>>]

\* the pixel of a decoded picture at column px, row py
Pixel(img, px, py) == 1 + ((img.id * 37 + py * img.w + px) % 255)

\* bytes with an allowed extension that cv.imread cannot decode
BadFile == [kind |-> "bad"]

----------------------------------------------------------------------------
(* Files *)

NoFiles == [p \in {} |-> None]

Exists(f, path) == path \in DOMAIN f

WriteFile(f, path, content) ==
    [p \in DOMAIN f \cup {path} |-> IF p = path THEN content ELSE f[p]]

RemoveFile(f, path) == [p \in DOMAIN f \ {path} |-> f[p]]

Join(dir, name) == <<dir, name>>

\* cv.imread: None when the file is missing or cannot be decoded
imread(f, path) ==
    IF Exists(f, path) /\ f[path].kind = "img" THEN f[path] ELSE None

IsEmptyArray(a) == a.w = 0 \/ a.h = 0

----------------------------------------------------------------------------
(* cv.HoughCircles as the detector calls it *)

Square(n) == n * n

\* the centre of disc d is at least minDist away from every accepted centre
FarFromAll(d, acc, minDist) ==
    \A k \in 1..Len(acc) :
        Square(d[1] - acc[k][1]) + Square(d[2] - acc[k][2]) >= Square(10 * minDist)

RECURSIVE HoughAccept(_, _, _, _, _, _)
\* greedy acceptance in scan order of the centres whose radius lies in
\* [minR, maxR]; with centersOnly no radius is searched and 0 is reported
HoughAccept(discs, acc, minDist, minR, maxR, centersOnly) ==
    IF discs = <<>> THEN acc
    ELSE LET d == Head(discs)
             ok == /\ centersOnly \/ (10 * minR <= d[3] /\ d[3] <= 10 * maxR)
                   /\ FarFromAll(d, acc, minDist)
             out == IF centersOnly THEN <<d[1], d[2], 0>> ELSE d
         IN  HoughAccept(Tail(discs), IF ok THEN Append(acc, out) ELSE acc,
                         minDist, minR, maxR, centersOnly)

\* the effective upper radius bound of the search
HoughMaxRadius(gray, minR, maxRadius) ==
    IF maxRadius <= 0 THEN Max(gray.h, gray.w)
    ELSE IF maxRadius <= minR THEN minR + 2
    ELSE maxRadius

HoughCircles(gray, dp10, minDist, param1, param2, minRadius, maxRadius) ==
    IF dp10 <= 0 \/ minDist <= 0 \/ param1 <= 0 \/ param2 <= 0
    THEN [raised |-> "cv2.error", ret |-> None]
    ELSE LET minR == Max(0, minRadius)
             maxR == HoughMaxRadius(gray, minR, maxRadius)
             found == HoughAccept(gray.discs, <<>>, minDist, minR, maxR,
                                  maxRadius < 0)
         IN  [raised |-> "",
              ret |-> IF found = <<>> THEN None ELSE Arr(found)]

\* np.round(circles[0, :]).astype("int")
RoundCircles(found) ==
    [k \in 1..Len(found) |->
        <<NpRound10(found[k][1]), NpRound10(found[k][2]), NpRound10(found[k][3])>>]

----------------------------------------------------------------------------
(* CircleDetector *)

\* CircleDetector.__init__
CircleDetector(min_radius, max_radius) ==
    [min_radius |-> min_radius, max_radius |-> max_radius]

\* the radius bounds HoughCircles is given: the detector's fields
SelfRadii(det) == <<det.min_radius, det.max_radius>>

\* CircleDetector.detect_circles from the grayscale conversion on: the search
\* with the detector's radius bounds as they are now, and the rounding
detect_search(image, det, dp10, min_dist, param1, param2) ==
    LET radii == SelfRadii(det)
        hc == HoughCircles(image, dp10, min_dist, param1, param2, radii[1], radii[2])
    IN  IF hc.raised # "" THEN hc
        ELSE IF ~IsNone(hc.ret)
             THEN [raised |-> "", ret |-> Arr(RoundCircles(hc.ret.arr))]
             ELSE [raised |-> "", ret |-> None]

\* CircleDetector.detect_circles
detect_circles(f, det, image_path, dp10, min_dist, param1, param2) ==
    LET image == imread(f, image_path)
    IN  IF IsNone(image) THEN [raised |-> "ValueError", ret |-> None]
        ELSE detect_search(image, det, dp10, min_dist, param1, param2)

\* a slip in the column index: circles[:, 0]
RadiusColumnFirst(s) == [k \in 1..Len(s) |-> s[k][1]]

\* the radius column of a circle array: circles[:, 2]
RadiusColumn(s) == [k \in 1..Len(s) |-> s[k][3]]

RECURSIVE SumSeq(_)
SumSeq(s) == IF s = <<>> THEN 0 ELSE Head(s) + SumSeq(Tail(s))

MinSeq(s) == CHOOSE m \in {s[k] : k \in 1..Len(s)} : \A k \in 1..Len(s) : m <= s[k]

MaxSeq(s) == CHOOSE m \in {s[k] : k \in 1..Len(s)} : \A k \in 1..Len(s) : m >= s[k]

\* np.mean as the exact fraction num / den
NpMean(s) == [num |-> SumSeq(s), den |-> Len(s)]

\* np.std squared, as an exact fraction: the mean of the squared deviations
\* from the mean (ddof = 0).  With N = Len(s) and S = Sum(s) the deviation of
\* s[k] is (N * s[k] - S) / N.
NpStdSquared(s) ==
    LET n == Len(s)
        sum == SumSeq(s)
    IN  [num |-> SumSeq([k \in 1..n |-> Square(n * s[k] - sum)]),
         den |-> n * n * n]

\* the empty case filled in like the other one: count and an empty circle list
get_circle_info_listed(circles) ==
    IF IsNone(circles) \/ Len(circles.arr) = 0
    THEN [count |-> 0, circles |-> <<>>]
    ELSE LET radii == RadiusColumn(circles.arr)
         IN  [count |-> Len(circles.arr),
              average_radius |-> NpMean(radii),
              min_radius |-> MinSeq(radii),
              max_radius |-> MaxSeq(radii),
              std_radius_squared |-> NpStdSquared(radii),
              circles |-> [k \in 1..Len(circles.arr) |->
                              [x |-> circles.arr[k][1], y |-> circles.arr[k][2],
                               radius |-> circles.arr[k][3]]]]

\* CircleDetector.get_circle_info
get_circle_info(circles) ==
    IF IsNone(circles) \/ Len(circles.arr) = 0
    THEN [count |-> 0]
    ELSE LET radii == RadiusColumn(circles.arr)
         IN  [count |-> Len(circles.arr),
              average_radius |-> NpMean(radii),
              min_radius |-> MinSeq(radii),
              max_radius |-> MaxSeq(radii),
              std_radius_squared |-> NpStdSquared(radii),
              circles |-> [k \in 1..Len(circles.arr) |->
                              [x |-> circles.arr[k][1], y |-> circles.arr[k][2],
                               radius |-> circles.arr[k][3]]]]

----------------------------------------------------------------------------
(* CircleDetector.draw_circles.  The buffers of a call are a small heap:   *)
(* the name "image" is bound to the buffer cv.imread returns and "output"  *)
(* to whatever image.copy() returns.                                       *)

\* output = image instead of image.copy(): the same buffer under a second name
ndarray_alias(heap, ref) == [heap |-> heap, ref |-> ref]

\* ndarray.copy(): a new buffer with the same content
ndarray_copy(heap, ref) ==
    [heap |-> [b \in DOMAIN heap \cup {"output"} |->
                  IF b = "output" THEN heap[ref] ELSE heap[b]],
     ref |-> "output"]

\* the three drawing calls of one loop iteration on buffer content c
DrawOne(c, circle) ==
    LET x == circle[1]
        y == circle[2]
        r == circle[3]
    IN  [c EXCEPT !.marks = @ \o
            << <<"circle", x, y, r, "green", 2>>,
               <<"circle", x, y, 3, "red", -1>>,
               <<"putText", r, x - 20, y - r - 10>> >>]

RECURSIVE DrawAll(_, _)
DrawAll(c, circles) ==
    IF circles = <<>> THEN c
    ELSE DrawAll(DrawOne(c, Head(circles)), Tail(circles))

\* cv.imwrite: refuses an empty array
imwrite(f, path, content) ==
    IF content.kind = "arr" /\ IsEmptyArray(content)
    THEN [raised |-> "cv2.error", fs |-> f]
    ELSE [raised |-> "", fs |-> WriteFile(f, path, content)]

\* CircleDetector.draw_circles; image is the buffer read from the file as it is
\* when the call returns
draw_circles(f, image_path, circles, output_path) ==
    LET image == imread(f, image_path)
    IN  IF IsNone(image)
        THEN [raised |-> "AttributeError", ret |-> None, image |-> None, fs |-> f]
        ELSE LET cp == ndarray_copy([b \in {"image"} |-> image], "image")
             IN  IF IsNone(circles)
                 THEN [raised |-> "TypeError", ret |-> None,
                       image |-> cp.heap["image"], fs |-> f]
                 ELSE LET heap == [cp.heap EXCEPT ![cp.ref] = DrawAll(@, circles.arr)]
                          wr == IF IsNone(output_path)
                                THEN [raised |-> "", fs |-> f]
                                ELSE imwrite(f, output_path.path, heap[cp.ref])
                      IN  [raised |-> wr.raised,
                           ret |-> IF wr.raised = "" THEN heap[cp.ref] ELSE None,
                           image |-> heap["image"],
                           fs |-> wr.fs]

----------------------------------------------------------------------------
(* CircleDetector.extract_circles *)

\* the mask value at (px, py) after cv.circle(mask, (x, y), r, 255, -1)
MaskAt(circle, px, py) ==
    IF Square(px - circle[1]) + Square(py - circle[2]) <= Square(circle[3])
    THEN 255 ELSE 0

\* the crop box of a circle: x1, y1, x2, y2
CropBox(image, circle) ==
    LET x == circle[1]
        y == circle[2]
        r == circle[3]
    IN  [x1 |-> Max(0, x - r), y1 |-> Max(0, y - r),
         x2 |-> Min(image.w, x + r), y2 |-> Min(image.h, y + r)]

\* the columns and the rows image[y1:y2, x1:x2] keeps
CropCols(image, circle) ==
    LET b == CropBox(image, circle) IN SliceRange(b.x1, b.x2, image.w)

CropRows(image, circle) ==
    LET b == CropBox(image, circle) IN SliceRange(b.y1, b.y2, image.h)

\* cv.bitwise_and(cropped, cropped, mask=mask_cropped); px[j][i] is the pixel
\* of row j, column i of the result, cols and rows say which source columns and
\* rows it holds
ExtractOne(image, circle) ==
    LET cols == CropCols(image, circle)
        rows == CropRows(image, circle)
        w == Cardinality(cols)
        h == Cardinality(rows)
        x0 == CropBox(image, circle).x1
        y0 == CropBox(image, circle).y1
    IN  [kind |-> "arr", w |-> w, h |-> h,
         px |-> [j \in 1..h |-> [i \in 1..w |->
                    IF MaskAt(circle, x0 + i - 1, y0 + j - 1) # 0
                    THEN Pixel(image, x0 + i - 1, y0 + j - 1) ELSE 0]]]

CircleFileName(i) == "circle_" \o ToString(i) \o ".png"

RECURSIVE ExtractLoop(_, _, _, _, _, _)
\* the loop from iteration i on; paths are the extracted_paths so far
ExtractLoop(f, image, circles, output_dir, i, paths) ==
    IF i > Len(circles) THEN [raised |-> "", ret |-> paths, fs |-> f]
    ELSE IF IsNone(image)
    THEN [raised |-> "AttributeError", ret |-> None, fs |-> f]
    ELSE LET output_path == Join(output_dir, CircleFileName(i))
             wr == imwrite(f, output_path, ExtractOne(image, circles[i]))
         IN  IF wr.raised # "" THEN [raised |-> wr.raised, ret |-> None, fs |-> f]
             ELSE ExtractLoop(wr.fs, image, circles, output_dir, i + 1,
                              Append(paths, output_path))

\* CircleDetector.extract_circles
extract_circles(f, image_path, circles, output_dir) ==
    LET image == imread(f, image_path)
    IN  IF IsNone(circles) THEN [raised |-> "TypeError", ret |-> None, fs |-> f]
        ELSE ExtractLoop(f, image, circles.arr, output_dir, 1, <<>>)

----------------------------------------------------------------------------
(* Requests of the Flask application and the local variables of a handler *)

\* threads of the server that serve requests at the same time
NumWorkers == 2

Workers == 1..NumWorkers

UPLOAD_FOLDER == "uploads"

OUTPUT_FOLDER == "outputs"

ALLOWED_EXTENSIONS == {"png", "jpg", "jpeg", "gif", "bmp"}

\* an uploaded file name: directory part, stem and extension ("" for none)
FileName(dirs, stem, ext) == [dirs |-> dirs, stem |-> stem, ext |-> ext]

\* werkzeug's secure_filename: the directory part is dropped
secure_filename(filename) ==
    IF filename.ext = "" THEN filename.stem ELSE filename.stem \o "." \o filename.ext

\* allowed_file: there is an extension and it is one of the allowed ones
allowed_file(filename) == filename.ext # "" /\ filename.ext \in ALLOWED_EXTENSIONS

NoRequest == [kind |-> "none"]

NoLocals == [kind |-> "none"]

\* the locals of a handler that has passed its first checks
FreshLocals ==
    [kind |-> "locals", image |-> Unset, circles |-> Unset, radii |-> Unset,
     output_image |-> Unset, extracted_paths |-> Unset, extracted_images |-> Unset]

\* a request: upload is the file part or the decoded base64 picture (None when
\* the request has none), radii the min_radius and max_radius it carries (the
\* defaults when it carries none)
Request(endpoint, filename, upload, min_radius, max_radius) ==
    [kind |-> "request", endpoint |-> endpoint, filename |-> filename,
     upload |-> upload, min_radius |-> min_radius, max_radius |-> max_radius]

\* base64.b64encode and cv.imencode('.png', ...) wrap what they encode
B64(content) == [kind |-> "b64", of |-> content]

Png(content) == [kind |-> "png", of |-> content]

----------------------------------------------------------------------------
(* Direct use of a CircleDetector, as main() and any importing script do:  *)
(* one detector, one picture file, then the stages applied to one circle   *)
(* array, which is either what detect_circles returned or an array the     *)
(* caller built.                                                           *)

PathArg(path) == [kind |-> "path", path |-> path]

LibPath == Join(".", "input.png")

LibOutPath == Join(".", "annotated.png")

LibOutDir == "extracted_circles"

\* pictures: discs are <<x, y, r>> in tenths of a pixel
SmallPicture == Picture(1, 5, 4, << <<20, 20, 10>> >>)

WidePicture ==
    Picture(2, 300, 200,
            << <<10, 10, 20>>, <<1504, 1005, 25>>, <<2990, 1990, 10>>, <<1500, 100, 30>> >>)

BlankPicture == Picture(3, 6, 6, <<>>)

CrowdedPicture == Picture(4, 300, 200, << <<500, 500, 20>>, <<600, 500, 30>> >>)

LibFiles == {SmallPicture, WidePicture, BlankPicture, CrowdedPicture, BadFile}

\* min_radius, max_radius given to the constructor
LibRadii ==
    { <<DefaultMinRadius, DefaultMaxRadius>>, <<1, 3>>, <<2, 2>>, <<50, 10>>,
      <<3, 1>>, <<-1, 3>>, <<1, -1>>, <<0, 0>> }

DpMenu == {DefaultDp10, 0}

MinDistMenu == {DefaultMinDist, 0, 5}

\* coordinates near both ends of an axis of length n, and its middle
EdgeCoords(n) == {c \in 0..(n - 1) : c <= MaxR \/ c >= n - 1 - MaxR} \cup {n \div 2}

RECURSIVE SeqsUpTo(_, _)
SeqsUpTo(S, n) ==
    IF n = 0 THEN {<<>>}
    ELSE LET shorter == SeqsUpTo(S, n - 1)
         IN  shorter \cup {Append(s, e) : s \in shorter, e \in S}

\* circle arrays a caller hands to a stage: every single circle with its centre
\* in the picture, and the short sequences over three of them
SupplySeqs(w, h) ==
    {<< <<x, y, r>> >> : x \in EdgeCoords(w), y \in EdgeCoords(h), r \in 0..MaxR}
    \cup SeqsUpTo({<<0, 0, 1>>, <<w - 1, h - 1, 2>>, <<w \div 2, h \div 2, 1>>},
                  MaxCircles)

\* the server's workers, none of them serving a request
ApiUnused ==
    /\ pc = [w \in Workers |-> "idle"]
    /\ req = [w \in Workers |-> NoRequest]
    /\ loc = [w \in Workers |-> NoLocals]
    /\ done = {}
    /\ started = 0

LibInit ==
    /\ \E file \in LibFiles :
          /\ fs = WriteFile(NoFiles, LibPath, file)
          /\ lib = [original |-> file, circles |-> Unset, detect |-> Unset,
                    info |-> Unset, drawn |-> Unset, extracted |-> Unset]
    /\ \E radii \in LibRadii : detector = CircleDetector(radii[1], radii[2])
    /\ ApiUnused

\* circles = detector.detect_circles(path, dp, min_dist)
LibDetect ==
    /\ lib.circles = Unset /\ lib.detect = Unset
    /\ \E dp10 \in DpMenu, min_dist \in MinDistMenu :
          LET r == detect_circles(fs, detector, LibPath, dp10, min_dist,
                                  DefaultParam1, DefaultParam2)
          IN  lib' = [lib EXCEPT
                        !.detect = [kind |-> "call", dp10 |-> dp10,
                                    min_dist |-> min_dist, raised |-> r.raised,
                                    ret |-> r.ret],
                        !.circles = IF r.raised = "" THEN r.ret ELSE Unset]
    /\ UNCHANGED <<fs, detector, pc, req, loc, done, started>>

\* the caller builds the circle array itself
LibSupply ==
    /\ lib.circles = Unset /\ lib.detect = Unset
    /\ LET file == fs[LibPath]
           w == IF file.kind = "img" THEN file.w ELSE 3
           h == IF file.kind = "img" THEN file.h ELSE 3
       IN  \E s \in SupplySeqs(w, h) : lib' = [lib EXCEPT !.circles = Arr(s)]
    /\ UNCHANGED <<fs, detector, pc, req, loc, done, started>>

\* info = detector.get_circle_info(circles)
LibInfo ==
    /\ lib.circles # Unset /\ lib.info = Unset
    /\ lib' = [lib EXCEPT !.info = [kind |-> "call", ret |-> get_circle_info(lib.circles)]]
    /\ UNCHANGED <<fs, detector, pc, req, loc, done, started>>

\* output = detector.draw_circles(path, circles, output_path)
LibDraw ==
    /\ lib.circles # Unset /\ lib.drawn = Unset
    /\ \E out \in {None, PathArg(LibOutPath)} :
          LET r == draw_circles(fs, LibPath, lib.circles, out)
          IN  /\ lib' = [lib EXCEPT
                           !.drawn = [kind |-> "call", output_path |-> out,
                                      raised |-> r.raised, ret |-> r.ret,
                                      image |-> r.image]]
              /\ fs' = r.fs
    /\ UNCHANGED <<detector, pc, req, loc, done, started>>

\* paths = detector.extract_circles(path, circles)
LibExtract ==
    /\ lib.circles # Unset /\ lib.extracted = Unset
    /\ LET r == extract_circles(fs, LibPath, lib.circles, LibOutDir)
       IN  /\ lib' = [lib EXCEPT
                        !.extracted = [kind |-> "call", raised |-> r.raised,
                                       ret |-> r.ret]]
           /\ fs' = r.fs
    /\ UNCHANGED <<detector, pc, req, loc, done, started>>

LibNext == LibDetect \/ LibSupply \/ LibInfo \/ LibDraw \/ LibExtract

SpecLib == LibInit /\ [][LibNext]_vars

----------------------------------------------------------------------------
(* Properties of the stages, checked under SpecLib *)

Called(c) == c.kind = "call"

HasCircles == lib.circles.kind = "circles"

Readable == lib.original.kind = "img"

\* C3 as stated: every circle's crop covers columns max(0, x-r)..min(W-1, x+r)
\* and rows max(0, y-r)..min(H-1, y+r) of the picture, both ends included, so a
\* circle whose box lies inside the picture gives (2r+1) x (2r+1) pixels, and
\* no circle makes the extraction raise.
C3_CropIsInclusiveClampedBox ==
    (Called(lib.extracted) /\ HasCircles /\ Readable) =>
        /\ lib.extracted.raised = ""
        /\ \A i \in 1..Len(lib.circles.arr) :
              LET c == lib.circles.arr[i]
                  img == lib.original
                  out == fs[lib.extracted.ret[i]]
              IN  /\ out.w = Min(img.w - 1, c[1] + c[3]) - Max(0, c[1] - c[3]) + 1
                  /\ out.h = Min(img.h - 1, c[2] + c[3]) - Max(0, c[2] - c[3]) + 1

\* C4 as stated: for every circle sequence of length N, extraction returns N
\* paths, the i-th holding the masked crop of the i-th circle, and N = 0 gives
\* the empty sequence, never an error.
C4_OneOutputPerCircleInOrder ==
    (Called(lib.extracted) /\ HasCircles /\ Readable) =>
        /\ lib.extracted.raised = ""
        /\ Len(lib.extracted.ret) = Len(lib.circles.arr)
        /\ \A i \in 1..Len(lib.circles.arr) :
              /\ lib.extracted.ret[i] = Join(LibOutDir, CircleFileName(i))
              /\ fs[lib.extracted.ret[i]] = ExtractOne(lib.original, lib.circles.arr[i])

InvalidParameters(det, dp10, min_dist) ==
    \/ det.min_radius > det.max_radius
    \/ dp10 <= 0
    \/ min_dist <= 0
    \/ det.min_radius < 0
    \/ det.max_radius < 0

\* C5 as stated: with minRadius > maxRadius, dp <= 0, minDist <= 0 or a negative
\* radius bound, detect fails and produces no detection result.
C5_InvalidParametersRejected ==
    (Called(lib.detect) /\ InvalidParameters(detector, lib.detect.dp10, lib.detect.min_dist)) =>
        lib.detect.raised # ""

DetectFoundNothing ==
    Called(lib.detect) /\ lib.detect.raised = "" /\ IsNone(lib.detect.ret)

\* C6 as stated: when detect finds no circle, handing its result to annotate,
\* extract and summarize raises nothing: annotate returns an unmodified copy,
\* extract the empty sequence and summarize count 0.
C6_EmptyResultAcceptedDownstream ==
    DetectFoundNothing =>
        /\ Called(lib.drawn) =>
              (lib.drawn.raised = "" /\ lib.drawn.ret = lib.original)
        /\ Called(lib.extracted) =>
              (lib.extracted.raised = "" /\ lib.extracted.ret = <<>>)
        /\ Called(lib.info) => lib.info.ret.count = 0

\* C7: for a non-empty circle sequence, summarize's count is its length, the
\* mean is the sum of the radius components over N and lies between the least
\* and the greatest radius, which min_radius and max_radius are, and the squared
\* standard deviation is the population variance (N * sum(r^2) - sum(r)^2) / N^2,
\* which is not negative.
C7_SummaryOfRadii ==
    (Called(lib.info) /\ HasCircles /\ Len(lib.circles.arr) >= 1) =>
        LET s == lib.circles.arr
            n == Len(s)
            i == lib.info.ret
            sumR == SumSeq([k \in 1..n |-> s[k][3]])
            sumR2 == SumSeq([k \in 1..n |-> s[k][3] * s[k][3]])
        IN  /\ i.count = n
            /\ i.average_radius.den > 0
            /\ i.average_radius.num * n = sumR * i.average_radius.den
            /\ i.min_radius * i.average_radius.den <= i.average_radius.num
            /\ i.average_radius.num <= i.max_radius * i.average_radius.den
            /\ \A k \in 1..n : i.min_radius <= s[k][3] /\ s[k][3] <= i.max_radius
            /\ \E k \in 1..n : i.min_radius = s[k][3]
            /\ \E k \in 1..n : i.max_radius = s[k][3]
            /\ i.std_radius_squared.den > 0
            /\ i.std_radius_squared.num >= 0
            /\ i.std_radius_squared.num * n * n
                  = (n * sumR2 - sumR * sumR) * i.std_radius_squared.den

C7_Witness ==
    /\ Called(lib.info) /\ HasCircles /\ Len(lib.circles.arr) = 2
    /\ lib.circles.arr[1][3] # lib.circles.arr[2][3]
    /\ lib.info.ret.count = 2
    /\ lib.info.ret.std_radius_squared.num > 0

\* C8: for an empty or absent circle sequence summarize returns a record whose
\* only field is count, and count is 0.
C8_EmptySummaryIsCountOnly ==
    (Called(lib.info) /\ (IsNone(lib.circles) \/ Len(lib.circles.arr) = 0)) =>
        /\ DOMAIN lib.info.ret = {"count"}
        /\ lib.info.ret.count = 0

C8_Witness ==
    /\ DetectFoundNothing /\ IsNone(lib.circles)
    /\ Called(lib.info) /\ lib.info.ret.count = 0

\* C9: annotate leaves the buffer it read and the file it read it from as they
\* were, draws three marks per circle on the image it returns, and for an empty
\* circle sequence returns an image identical to the original.
C9_AnnotateLeavesSourceUnchanged ==
    (Called(lib.drawn) /\ HasCircles /\ Readable) =>
        /\ lib.drawn.raised = ""
        /\ lib.drawn.image = lib.original
        /\ fs[LibPath] = lib.original
        /\ Len(lib.drawn.ret.marks) = 3 * Len(lib.circles.arr)
        /\ lib.circles.arr = <<>> => lib.drawn.ret = lib.original

C9_Witness ==
    /\ Called(lib.drawn) /\ HasCircles /\ Readable
    /\ Len(lib.circles.arr) = 2
    /\ lib.drawn.ret # lib.original
    /\ lib.drawn.image = lib.original

\* C11 as stated: extraction raises nothing, and for every circle (x, y, r) and
\* every pixel (px, py) of its clamped box, columns max(0, x-r)..min(W-1, x+r)
\* and rows max(0, y-r)..min(H-1, y+r), the circle's output holds the source
\* pixel when (px, py) lies within the filled disc of radius r centred at
\* (x, y) and 0 otherwise; the source picture is left as it was.
C11_MaskedCropKeepsExactlyTheDisc ==
    (Called(lib.extracted) /\ HasCircles /\ Readable) =>
        /\ lib.extracted.raised = ""
        /\ fs[LibPath] = lib.original
        /\ \A i \in 1..Len(lib.circles.arr) :
              LET c == lib.circles.arr[i]
                  img == lib.original
                  out == fs[lib.extracted.ret[i]]
                  x1 == Max(0, c[1] - c[3])
                  y1 == Max(0, c[2] - c[3])
              IN  \A px \in x1..Min(img.w - 1, c[1] + c[3]),
                     py \in y1..Min(img.h - 1, c[2] + c[3]) :
                      /\ px - x1 + 1 \in 1..out.w
                      /\ py - y1 + 1 \in 1..out.h
                      /\ out.px[py - y1 + 1][px - x1 + 1]
                            = IF Square(px - c[1]) + Square(py - c[2]) <= Square(c[3])
                              THEN Pixel(img, px, py) ELSE 0

----------------------------------------------------------------------------
(* The Flask application: one module-level detector, the uploads and       *)
(* outputs folders, and handlers that run in the server's threads.  A step *)
(* is one statement of a handler; detect_circles is two steps, the read of *)
(* the file and the search.                                                *)

UploadPath(filename) == Join(UPLOAD_FOLDER, secure_filename(filename))

TempPath == Join(UPLOAD_FOLDER, "temp_image.png")

ResultPath(filename) == Join(OUTPUT_FOLDER, "result_" \o secure_filename(filename))

ExtractedDir == OUTPUT_FOLDER \o "/extracted"

PlainName(stem, ext) == FileName("", stem, ext)

NoName == FileName("", "", "")

\* the requests clients send
ApiRequests ==
    { Request("detect", PlainName("a", "png"), WidePicture, 1, 2),
      Request("detect", FileName("../", "a", "png"), CrowdedPicture, 3, 4),
      Request("detect", PlainName("notes", "txt"), WidePicture,
              DefaultMinRadius, DefaultMaxRadius),
      Request("detect", NoName, WidePicture, DefaultMinRadius, DefaultMaxRadius),
      Request("detect", PlainName("d", "png"), BlankPicture,
              DefaultMinRadius, DefaultMaxRadius),
      Request("detect_base64", NoName, WidePicture, 1, 3),
      Request("detect_base64", NoName, BlankPicture, DefaultMinRadius, DefaultMaxRadius),
      Request("detect_base64", NoName, None, DefaultMinRadius, DefaultMaxRadius),
      Request("extract", PlainName("a", "png"), WidePicture,
              DefaultMinRadius, DefaultMaxRadius),
      Request("extract", PlainName("b", "png"), CrowdedPicture,
              DefaultMinRadius, DefaultMaxRadius),
      Request("extract", PlainName("c", "gif"), BadFile,
              DefaultMinRadius, DefaultMaxRadius) }

Error(status, what) == [status |-> status, error |-> what]

NoCirclesResponse == [status |-> 200, success |-> FALSE, count |-> 0]

\* the handler of worker w returns response; locals are its local variables
Respond(w, locals, response) ==
    /\ done' = done \cup {[request |-> req[w], radii |-> locals.radii,
                           response |-> response]}
    /\ pc' = [pc EXCEPT ![w] = "idle"]
    /\ req' = [req EXCEPT ![w] = NoRequest]
    /\ loc' = [loc EXCEPT ![w] = NoLocals]

Goto(w, label, locals) ==
    /\ pc' = [pc EXCEPT ![w] = label]
    /\ loc' = [loc EXCEPT ![w] = locals]
    /\ UNCHANGED <<req, done>>

\* os.remove
os_remove(f, path) ==
    IF Exists(f, path) THEN [raised |-> "", fs |-> RemoveFile(f, path)]
    ELSE [raised |-> "FileNotFoundError", fs |-> f]

RECURSIVE RemoveEach(_, _)
\* for path in paths: os.remove(path)
RemoveEach(f, paths) ==
    IF paths = <<>> THEN [raised |-> "", fs |-> f]
    ELSE LET r == os_remove(f, Head(paths))
         IN  IF r.raised # "" THEN r ELSE RemoveEach(r.fs, Tail(paths))

\* a worker takes the next request
Start(w) ==
    /\ pc[w] = "idle"
    /\ started < MaxStarted
    /\ \E r \in ApiRequests :
          /\ req' = [req EXCEPT ![w] = r]
          /\ pc' = [pc EXCEPT ![w] = r.endpoint \o ":begin"]
    /\ started' = started + 1
    /\ UNCHANGED <<fs, detector, lib, loc, done>>

At(w, endpoint, step) == pc[w] = endpoint \o ":" \o step

(* /detect *)

DetectBegin(w) ==
    /\ At(w, "detect", "begin")
    /\ IF IsNone(req[w].upload)
       THEN Respond(w, FreshLocals, Error(400, "No image file provided"))
       ELSE IF req[w].filename = NoName
       THEN Respond(w, FreshLocals, Error(400, "No file selected"))
       ELSE IF ~allowed_file(req[w].filename)
       THEN Respond(w, FreshLocals, Error(400, "Invalid file type"))
       ELSE Goto(w, "detect:save", FreshLocals)
    /\ UNCHANGED <<fs, detector, lib, started>>

DetectSave(w) ==
    /\ At(w, "detect", "save")
    /\ fs' = WriteFile(fs, UploadPath(req[w].filename), req[w].upload)
    /\ Goto(w, "detect:set_min", loc[w])
    /\ UNCHANGED <<detector, lib, started>>

DetectSetMin(w) ==
    /\ At(w, "detect", "set_min")
    /\ detector' = [detector EXCEPT !.min_radius = req[w].min_radius]
    /\ Goto(w, "detect:set_max", loc[w])
    /\ UNCHANGED <<fs, lib, started>>

DetectSetMax(w) ==
    /\ At(w, "detect", "set_max")
    /\ detector' = [detector EXCEPT !.max_radius = req[w].max_radius]
    /\ Goto(w, "detect:read", loc[w])
    /\ UNCHANGED <<fs, lib, started>>

\* the min and max radius a search ran with, kept for the record of the request
RadiiUsed(radii) == [kind |-> "radii", min_radius |-> radii[1], max_radius |-> radii[2]]

\* the first half of detector.detect_circles(path): cv.imread and its check
CallRead(w, path, next) ==
    LET image == imread(fs, path)
    IN  IF IsNone(image) THEN Respond(w, loc[w], Error(500, "ValueError"))
        ELSE Goto(w, next, [loc[w] EXCEPT !.image = image])

\* the second half: the search on the picture read, with the detector's fields
CallSearch(w, next) ==
    LET r == detect_search(loc[w].image, detector, DefaultDp10, DefaultMinDist,
                           DefaultParam1, DefaultParam2)
        locals == [loc[w] EXCEPT !.circles = r.ret, !.radii = RadiiUsed(SelfRadii(detector))]
    IN  IF r.raised # "" THEN Respond(w, locals, Error(500, r.raised))
        ELSE Goto(w, next, locals)

DetectRead(w) ==
    /\ At(w, "detect", "read")
    /\ CallRead(w, UploadPath(req[w].filename), "detect:search")
    /\ UNCHANGED <<fs, detector, lib, started>>

DetectSearch(w) ==
    /\ At(w, "detect", "search")
    /\ CallSearch(w, "detect:after")
    /\ UNCHANGED <<fs, detector, lib, started>>

DetectAfter(w) ==
    /\ At(w, "detect", "after")
    /\ IF IsNone(loc[w].circles) THEN Respond(w, loc[w], NoCirclesResponse)
       ELSE Goto(w, "detect:draw", loc[w])
    /\ UNCHANGED <<fs, detector, lib, started>>

\* the success response of /detect and /detect_base64
DetectedResponse(locals) ==
    [status |-> 200, success |-> TRUE, data |-> get_circle_info(locals.circles),
     result_image |-> B64(Png(locals.output_image))]

DetectDraw(w) ==
    /\ At(w, "detect", "draw")
    /\ LET r == draw_circles(fs, UploadPath(req[w].filename), loc[w].circles,
                             PathArg(ResultPath(req[w].filename)))
       IN  /\ fs' = r.fs
           /\ IF r.raised # "" THEN Respond(w, loc[w], Error(500, r.raised))
              ELSE Goto(w, "detect:cleanup", [loc[w] EXCEPT !.output_image = r.ret])
    /\ UNCHANGED <<detector, lib, started>>

DetectCleanup(w) ==
    /\ At(w, "detect", "cleanup")
    /\ LET r == os_remove(fs, UploadPath(req[w].filename))
       IN  /\ fs' = r.fs
           /\ IF r.raised # "" THEN Respond(w, loc[w], Error(500, r.raised))
              ELSE Respond(w, loc[w], DetectedResponse(loc[w]))
    /\ UNCHANGED <<detector, lib, started>>

(* /detect_base64 *)

Base64Begin(w) ==
    /\ At(w, "detect_base64", "begin")
    /\ IF IsNone(req[w].upload)
       THEN Respond(w, FreshLocals, Error(400, "No image data provided"))
       ELSE IF req[w].upload.kind # "img"
       THEN Respond(w, FreshLocals, Error(500, "UnidentifiedImageError"))
       ELSE Goto(w, "detect_base64:save", FreshLocals)
    /\ UNCHANGED <<fs, detector, lib, started>>

Base64Save(w) ==
    /\ At(w, "detect_base64", "save")
    /\ fs' = WriteFile(fs, TempPath, req[w].upload)
    /\ Goto(w, "detect_base64:set_min", loc[w])
    /\ UNCHANGED <<detector, lib, started>>

Base64SetMin(w) ==
    /\ At(w, "detect_base64", "set_min")
    /\ detector' = [detector EXCEPT !.min_radius = req[w].min_radius]
    /\ Goto(w, "detect_base64:set_max", loc[w])
    /\ UNCHANGED <<fs, lib, started>>

Base64SetMax(w) ==
    /\ At(w, "detect_base64", "set_max")
    /\ detector' = [detector EXCEPT !.max_radius = req[w].max_radius]
    /\ Goto(w, "detect_base64:read", loc[w])
    /\ UNCHANGED <<fs, lib, started>>

Base64Read(w) ==
    /\ At(w, "detect_base64", "read")
    /\ CallRead(w, TempPath, "detect_base64:search")
    /\ UNCHANGED <<fs, detector, lib, started>>

Base64Search(w) ==
    /\ At(w, "detect_base64", "search")
    /\ CallSearch(w, "detect_base64:after")
    /\ UNCHANGED <<fs, detector, lib, started>>

Base64After(w) ==
    /\ At(w, "detect_base64", "after")
    /\ IF IsNone(loc[w].circles)
       THEN LET r == os_remove(fs, TempPath)
            IN  /\ fs' = r.fs
                /\ IF r.raised # "" THEN Respond(w, loc[w], Error(500, r.raised))
                   ELSE Respond(w, loc[w], NoCirclesResponse)
       ELSE /\ fs' = fs
            /\ Goto(w, "detect_base64:draw", loc[w])
    /\ UNCHANGED <<detector, lib, started>>

Base64Draw(w) ==
    /\ At(w, "detect_base64", "draw")
    /\ LET r == draw_circles(fs, TempPath, loc[w].circles, None)
       IN  /\ fs' = r.fs
           /\ IF r.raised # "" THEN Respond(w, loc[w], Error(500, r.raised))
              ELSE Goto(w, "detect_base64:cleanup",
                        [loc[w] EXCEPT !.output_image = r.ret])
    /\ UNCHANGED <<detector, lib, started>>

Base64Cleanup(w) ==
    /\ At(w, "detect_base64", "cleanup")
    /\ LET r == os_remove(fs, TempPath)
       IN  /\ fs' = r.fs
           /\ IF r.raised # "" THEN Respond(w, loc[w], Error(500, r.raised))
              ELSE Respond(w, loc[w], DetectedResponse(loc[w]))
    /\ UNCHANGED <<detector, lib, started>>

(* /extract *)

ExtractBegin(w) ==
    /\ At(w, "extract", "begin")
    /\ IF IsNone(req[w].upload)
       THEN Respond(w, FreshLocals, Error(400, "No image file provided"))
       ELSE IF ~allowed_file(req[w].filename)
       THEN Respond(w, FreshLocals, Error(400, "Invalid file type"))
       ELSE Goto(w, "extract:save", FreshLocals)
    /\ UNCHANGED <<fs, detector, lib, started>>

ExtractSave(w) ==
    /\ At(w, "extract", "save")
    /\ fs' = WriteFile(fs, UploadPath(req[w].filename), req[w].upload)
    /\ Goto(w, "extract:read", loc[w])
    /\ UNCHANGED <<detector, lib, started>>

ExtractRead(w) ==
    /\ At(w, "extract", "read")
    /\ CallRead(w, UploadPath(req[w].filename), "extract:search")
    /\ UNCHANGED <<fs, detector, lib, started>>

ExtractSearch(w) ==
    /\ At(w, "extract", "search")
    /\ CallSearch(w, "extract:after")
    /\ UNCHANGED <<fs, detector, lib, started>>

ExtractAfter(w) ==
    /\ At(w, "extract", "after")
    /\ IF IsNone(loc[w].circles)
       THEN LET r == os_remove(fs, UploadPath(req[w].filename))
            IN  /\ fs' = r.fs
                /\ IF r.raised # "" THEN Respond(w, loc[w], Error(500, r.raised))
                   ELSE Respond(w, loc[w], NoCirclesResponse)
       ELSE /\ fs' = fs
            /\ Goto(w, "extract:extract", loc[w])
    /\ UNCHANGED <<detector, lib, started>>

ExtractCall(w) ==
    /\ At(w, "extract", "extract")
    /\ LET r == extract_circles(fs, UploadPath(req[w].filename), loc[w].circles,
                                ExtractedDir)
       IN  /\ fs' = r.fs
           /\ IF r.raised # "" THEN Respond(w, loc[w], Error(500, r.raised))
              ELSE Goto(w, "extract:encode", [loc[w] EXCEPT !.extracted_paths = r.ret])
    /\ UNCHANGED <<detector, lib, started>>

\* one entry of extracted_images: the file at path, read and encoded
ExtractedImage(f, circles, paths, i) ==
    [id |-> i, radius |-> circles[i][3],
     center |-> [x |-> circles[i][1], y |-> circles[i][2]],
     image |-> B64(f[paths[i]])]

ExtractEncode(w) ==
    /\ At(w, "extract", "encode")
    /\ LET paths == loc[w].extracted_paths
       IN  IF \E i \in 1..Len(paths) : ~Exists(fs, paths[i])
           THEN Respond(w, loc[w], Error(500, "FileNotFoundError"))
           ELSE Goto(w, "extract:cleanup",
                     [loc[w] EXCEPT !.extracted_images =
                         [i \in 1..Len(paths) |->
                             ExtractedImage(fs, loc[w].circles.arr, paths, i)]])
    /\ UNCHANGED <<fs, detector, lib, started>>

ExtractedResponse(locals) ==
    [status |-> 200, success |-> TRUE, count |-> Len(locals.extracted_images),
     circles |-> locals.extracted_images]

ExtractCleanup(w) ==
    /\ At(w, "extract", "cleanup")
    /\ LET r == RemoveEach(fs, <<UploadPath(req[w].filename)>> \o loc[w].extracted_paths)
       IN  /\ fs' = r.fs
           /\ IF r.raised # "" THEN Respond(w, loc[w], Error(500, r.raised))
              ELSE Respond(w, loc[w], ExtractedResponse(loc[w]))
    /\ UNCHANGED <<detector, lib, started>>

----------------------------------------------------------------------------
(* The server *)

\* the application module as imported: detector = CircleDetector(), the two
\* folders made and empty
Init ==
    /\ fs = NoFiles
    /\ detector = CircleDetector(DefaultMinRadius, DefaultMaxRadius)
    /\ lib = [kind |-> "none"]
    /\ ApiUnused

Step(w) ==
    \/ DetectBegin(w) \/ DetectSave(w) \/ DetectSetMin(w) \/ DetectSetMax(w)
    \/ DetectRead(w) \/ DetectSearch(w) \/ DetectAfter(w) \/ DetectDraw(w)
    \/ DetectCleanup(w)
    \/ Base64Begin(w) \/ Base64Save(w) \/ Base64SetMin(w) \/ Base64SetMax(w)
    \/ Base64Read(w) \/ Base64Search(w) \/ Base64After(w) \/ Base64Draw(w)
    \/ Base64Cleanup(w)
    \/ ExtractBegin(w) \/ ExtractSave(w) \/ ExtractRead(w) \/ ExtractSearch(w)
    \/ ExtractAfter(w) \/ ExtractCall(w) \/ ExtractEncode(w) \/ ExtractCleanup(w)

\* requests served by the workers at the same time
Next == \E w \in Workers : Start(w) \/ Step(w)

Spec == Init /\ [][Next]_vars

\* the same server when a request arrives only after the one before is answered
StartAlone(w) == (\A v \in Workers : pc[v] = "idle") /\ Start(w)

NextSeq == \E w \in Workers : StartAlone(w) \/ Step(w)

SpecSeq == Init /\ [][NextSeq]_vars

----------------------------------------------------------------------------
(* Properties of the server *)

Has(record, field) == field \in DOMAIN record

\* C1 as stated: for any interleaving of concurrent /detect and /detect_base64
\* requests, the search of a request runs with the min_radius and max_radius
\* that request supplied, and every circle in its response has a radius within
\* them.
C1_RequestUsesOwnRadii ==
    \A d \in done :
        (d.request.endpoint \in {"detect", "detect_base64"} /\ d.radii.kind = "radii") =>
            /\ d.radii.min_radius = d.request.min_radius
            /\ d.radii.max_radius = d.request.max_radius
            /\ Has(d.response, "data") =>
                  \A k \in 1..Len(d.response.data.circles) :
                      /\ d.request.min_radius <= d.response.data.circles[k].radius
                      /\ d.response.data.circles[k].radius <= d.request.max_radius

\* C2 as stated: whatever requests were answered before, two requests with the
\* same endpoint, picture and parameters run the search with the same radius
\* bounds and get the same response.
C2_SameInputsSameDetection ==
    \A d1, d2 \in done :
        d1.request = d2.request =>
            /\ d1.radii = d2.radii
            /\ d1.response = d2.response

\* C10 as stated: for any interleaving of concurrent requests, a request whose
\* picture decodes is never answered with an error caused by a missing file,
\* its annotated image is drawn on its own picture, and each extracted image is
\* the masked crop of its own picture for the circle it is paired with.
C10_RequestsReadOwnFiles ==
    \A d \in done :
        d.request.upload.kind = "img" =>
            /\ d.response.status # 500
            /\ Has(d.response, "result_image") =>
                  d.response.result_image.of.of.id = d.request.upload.id
            /\ Has(d.response, "circles") =>
                  \A k \in 1..Len(d.response.circles) :
                      LET e == d.response.circles[k]
                      IN  e.image = B64(ExtractOne(d.request.upload,
                                                   <<e.center.x, e.center.y, e.radius>>))

\* C12 as stated: once a request has been answered, whether with circles, with
\* "No circles detected" or with an error, the upload file it saved under the
\* uploads folder is gone, and after /extract no extracted circle file is left
\* either; checked when requests come one at a time, in the states where every
\* request taken so far has been answered.
C12_UploadsAreTransient ==
    (\A w \in Workers : pc[w] = "idle") =>
        \A d \in done :
            /\ d.request.endpoint \in {"detect", "extract"} =>
                  ~Exists(fs, UploadPath(d.request.filename))
            /\ d.request.endpoint = "detect_base64" => ~Exists(fs, TempPath)
            /\ d.request.endpoint = "extract" =>
                  \A p \in DOMAIN fs : p[1] # ExtractedDir

====

